---- MODULE Spec2Model ----
(***************************************************************************)
(* apply_rope (src/module/rope_simple.py): rotary positional embeddings.   *)
(*                                                                         *)
(* Numbers.  Array elements are real numbers; the model computes on an     *)
(* exact sub-field of them, the rationals [n |-> numerator, d |->          *)
(* denominator] in lowest terms, so that no rounding is modelled.          *)
(* Positions and angles are taken from the lattice                         *)
(*        [q |-> a, m |-> b]   =   a * (pi/2)  +  b * theta,               *)
(* theta = atan(4/3), on which cos and sin are rational:                   *)
(*        cos + i sin  =  i^a * ((3 + 4i)/5)^b.                            *)
(* base ** power is exact when the root it takes is an integer; the        *)
(* inputs are drawn from the arguments on which every intermediate value   *)
(* is exact.                                                               *)
(*                                                                         *)
(* Arrays are records [dtype |-> element type, val |-> nested sequences],  *)
(* indexed from 1 (python index i is index i+1 here).                      *)
(***************************************************************************)
EXTENDS Integers, Sequences, FiniteSets, TLC

\* ------------------------------------------------------------- bounds
\* x, position and their broadcast hold at most MaxRows feature vectors
\* (B*S*H) or entries (Bp*Sp); head_dim ranges over 1..MaxD.
MaxRows == 4
MaxD == 4
\* position entries are a*(pi/2) + b*theta with a in 0..MaxQ, b in 0..MaxTheta
MaxQ == 2
MaxTheta == 2

DEFAULT_BASE == 10000

\* ------------------------------------------------- exact real arithmetic
Abs(n) == IF n < 0 THEN -n ELSE n

RECURSIVE Gcd(_, _)
Gcd(a, b) == IF b = 0 THEN a ELSE Gcd(b, a % b)

\* the rational n/d (d # 0) in lowest terms with a positive denominator
Rat(n, d) ==
    LET g == Gcd(Abs(n), Abs(d))
        sgn == IF d < 0 THEN -1 ELSE 1
    IN  [n |-> sgn * ((IF n < 0 THEN -1 ELSE 1) * (Abs(n) \div g)),
         d |-> Abs(d) \div g]

Lcm(a, b) == (a \div Gcd(a, b)) * b

\* a * b, a - b, a + b on real (rational) elements
RMul(a, b) == Rat(a.n * b.n, a.d * b.d)

RAdd(a, b) ==
    LET l == Lcm(a.d, b.d)
    IN  Rat(a.n * (l \div a.d) + b.n * (l \div b.d), l)

RSub(a, b) == RAdd(a, [n |-> -b.n, d |-> b.d])

RECURSIVE IntPow(_, _)
IntPow(b, e) == IF e = 0 THEN 1 ELSE b * IntPow(b, e - 1)

\* the least t >= from with t^e >= target (e >= 1, target >= 1)
RECURSIVE RootFrom(_, _, _)
RootFrom(from, e, target) ==
    IF IntPow(from, e) >= target THEN from ELSE RootFrom(from + 1, e, target)

\* base ** p for a rational exponent p <= 0 in lowest terms:
\* base ** (-a/b) = 1/t with t^b = base^a.  PowExact says t is an integer.
Root(base, p) == RootFrom(1, p.d, IntPow(base, -p.n))
PowExact(base, p) == IntPow(Root(base, p), p.d) = IntPow(base, -p.n)
Pow(base, p) == [n |-> 1, d |-> Root(base, p)]

\* ------------------------------------------------------ angles, cos, sin
Angle(a, b) == [q |-> a, m |-> b]
Zero == Angle(0, 0)
AngleAdd(u, v) == Angle(u.q + v.q, u.m + v.m)
AngleSub(u, v) == Angle(u.q - v.q, u.m - v.m)
AngleTimes(j, u) == Angle(j * u.q, j * u.m)

\* angle * r for a rational r; exact when r.d divides both coordinates
ScaleExact(u, r) == (u.q * r.n) % r.d = 0 /\ (u.m * r.n) % r.d = 0
Scale(u, r) == Angle((u.q * r.n) \div r.d, (u.m * r.n) \div r.d)

\* (3 + 4i)^m as <<re, im>>, m >= 0
RECURSIVE CisPow(_)
CisPow(m) ==
    IF m = 0 THEN <<1, 0>>
    ELSE LET p == CisPow(m - 1) IN <<3 * p[1] - 4 * p[2], 4 * p[1] + 3 * p[2]>>

\* 5^|m| * (cos, sin) of m*theta
CisTheta(m) ==
    LET p == CisPow(Abs(m)) IN IF m < 0 THEN <<p[1], -p[2]>> ELSE p

\* 5^|m| * (cos, sin) of the angle u
Cis(u) ==
    LET p == CisTheta(u.m)
        r == u.q % 4
    IN  CASE r = 0 -> <<p[1], p[2]>>
          [] r = 1 -> <<-p[2], p[1]>>
          [] r = 2 -> <<-p[1], -p[2]>>
          [] OTHER -> <<p[2], -p[1]>>

cos(u) == Rat(Cis(u)[1], IntPow(5, Abs(u.m)))
sin(u) == Rat(Cis(u)[2], IntPow(5, Abs(u.m)))

\* ------------------------------------------------------- element types
\* jax.numpy type promotion on the element types the inputs take
\* (64-bit types are disabled by default): int32 is below every float,
\* and two different floats meet at float32.
Promote(s, t) ==
    IF s = t THEN s
    ELSE IF s = "int32" THEN t
    ELSE IF t = "int32" THEN s
    ELSE "float32"

\* int32 / python int is a true division: the result is float32
TrueDivideType(t) == IF t = "int32" THEN "float32" ELSE t

\* --------------------------------------------------------- array shapes
Shape2(v) == <<Len(v), Len(v[1])>>
Shape4(v) == <<Len(v), Len(v[1]), Len(v[1][1]), Len(v[1][1][1])>>

\* numpy broadcasting of two shapes of the same rank
Compatible(sa, sb) ==
    \A i \in DOMAIN sa : IF sa[i] = sb[i] THEN TRUE ELSE 1 \in {sa[i], sb[i]}
BroadcastShape(sa, sb) ==
    [i \in DOMAIN sa |-> IF sa[i] = 1 THEN sb[i] ELSE sa[i]]
BIdx(i, n) == IF n = 1 THEN 1 ELSE i
BroadcastTo(v, sh) ==
    LET s == Shape4(v)
    IN  [i1 \in 1..sh[1] |-> [i2 \in 1..sh[2] |-> [i3 \in 1..sh[3] |->
          [i4 \in 1..sh[4] |->
             v[BIdx(i1, s[1])][BIdx(i2, s[2])][BIdx(i3, s[3])][BIdx(i4, s[4])]]]]]

\* a * b, a - b, a + b on rank-4 arrays
Multiply(a, b) ==
    LET sh == BroadcastShape(Shape4(a.val), Shape4(b.val))
        av == BroadcastTo(a.val, sh)
        bv == BroadcastTo(b.val, sh)
    IN  [dtype |-> Promote(a.dtype, b.dtype),
         val |-> [i1 \in 1..sh[1] |-> [i2 \in 1..sh[2] |-> [i3 \in 1..sh[3] |->
                   [i4 \in 1..sh[4] |->
                      RMul(av[i1][i2][i3][i4], bv[i1][i2][i3][i4])]]]]]

Subtract(a, b) ==
    LET sh == BroadcastShape(Shape4(a.val), Shape4(b.val))
        av == BroadcastTo(a.val, sh)
        bv == BroadcastTo(b.val, sh)
    IN  [dtype |-> Promote(a.dtype, b.dtype),
         val |-> [i1 \in 1..sh[1] |-> [i2 \in 1..sh[2] |-> [i3 \in 1..sh[3] |->
                   [i4 \in 1..sh[4] |->
                      RSub(av[i1][i2][i3][i4], bv[i1][i2][i3][i4])]]]]]

Add(a, b) ==
    LET sh == BroadcastShape(Shape4(a.val), Shape4(b.val))
        av == BroadcastTo(a.val, sh)
        bv == BroadcastTo(b.val, sh)
    IN  [dtype |-> Promote(a.dtype, b.dtype),
         val |-> [i1 \in 1..sh[1] |-> [i2 \in 1..sh[2] |-> [i3 \in 1..sh[3] |->
                   [i4 \in 1..sh[4] |->
                      RAdd(av[i1][i2][i3][i4], bv[i1][i2][i3][i4])]]]]]

\* ------------------------------------------- the statements of apply_rope
\* head_dim = x.shape[-1]
HeadDim(xa) == Len(xa.val[1][1][1])

\* the assertion left out
AssertStripped(head_dim) == TRUE

\* assert head_dim % 2 == 0
AssertHolds(head_dim) == head_dim % 2 = 0

\* power = -2 * jnp.arange(0, head_dim // 2) / head_dim
PowerOf(head_dim) ==
    [dtype |-> TrueDivideType("int32"),
     val |-> [k \in 1..(head_dim \div 2) |-> Rat(-2 * (k - 1), head_dim)]]

\* timescale = base**power   (base is a python scalar: the type is power's)
Timescale(b, pw) ==
    [dtype |-> pw.dtype, val |-> [k \in DOMAIN pw.val |-> Pow(b, pw.val[k])]]

\* freq = position[..., None] * timescale
FreqOf(pos, ts) ==
    [dtype |-> Promote(pos.dtype, ts.dtype),
     val |-> [b \in DOMAIN pos.val |-> [s \in DOMAIN pos.val[b] |->
               [k \in DOMAIN ts.val |-> Scale(pos.val[b][s], ts.val[k])]]]]

\* a head axis of size 2 whose second head turns twice as fast
ExpandPerHead(f) ==
    [dtype |-> f.dtype,
     val |-> [b \in DOMAIN f.val |-> [s \in DOMAIN f.val[b] |->
               <<f.val[b][s],
                 [k \in DOMAIN f.val[b][s] |-> AngleTimes(2, f.val[b][s][k])]>>]]]

\* freq = freq[..., None, :]
ExpandHeads(f) ==
    [dtype |-> f.dtype,
     val |-> [b \in DOMAIN f.val |-> [s \in DOMAIN f.val[b] |-> <<f.val[b][s]>>]]]

\* jnp.cos(freq), jnp.sin(freq)
CosOf(f) ==
    [dtype |-> f.dtype,
     val |-> [b \in DOMAIN f.val |-> [s \in DOMAIN f.val[b] |->
               [h \in DOMAIN f.val[b][s] |-> [k \in DOMAIN f.val[b][s][h] |->
                  cos(f.val[b][s][h][k])]]]]]
SinOf(f) ==
    [dtype |-> f.dtype,
     val |-> [b \in DOMAIN f.val |-> [s \in DOMAIN f.val[b] |->
               [h \in DOMAIN f.val[b][s] |-> [k \in DOMAIN f.val[b][s][h] |->
                  sin(f.val[b][s][h][k])]]]]]

\* x[..., :head_dim // 2], the contiguous first half
FirstHalf(row) == [k \in 1..(Len(row) \div 2) |-> row[k]]

\* x[..., ::2]  and  x[..., 1::2]
EvenSlice(row) == [k \in 1..((Len(row) + 1) \div 2) |-> row[2 * k - 1]]
OddSlice(row) == [k \in 1..(Len(row) \div 2) |-> row[2 * k]]
XEven(xa) ==
    [dtype |-> xa.dtype,
     val |-> [b \in DOMAIN xa.val |-> [s \in DOMAIN xa.val[b] |->
               [h \in DOMAIN xa.val[b][s] |-> EvenSlice(xa.val[b][s][h])]]]]
XOdd(xa) ==
    [dtype |-> xa.dtype,
     val |-> [b \in DOMAIN xa.val |-> [s \in DOMAIN xa.val[b] |->
               [h \in DOMAIN xa.val[b][s] |-> OddSlice(xa.val[b][s][h])]]]]

\* cos and sin exchanged;  + for - ;  - for + ;  the odd side computed
\* from the even side's new value
RotateEvenSwapped(xe, xo, c, s) == Subtract(Multiply(xe, s), Multiply(xo, c))
RotateEvenPlus(xe, xo, c, s) == Add(Multiply(xe, c), Multiply(xo, s))
RotateOddSignSlip(xe, xo, c, s) == Subtract(Multiply(xo, c), Multiply(xe, s))
RotateOddAfterEven(xe, xo, c, s) ==
    Add(Multiply(xo, c), Multiply(Subtract(Multiply(xe, c), Multiply(xo, s)), s))

\* the two sides of the tuple assignment, both over the values before it
RotateEven(xe, xo, c, s) == Subtract(Multiply(xe, c), Multiply(xo, s))
RotateOdd(xe, xo, c, s) == Add(Multiply(xo, c), Multiply(xe, s))

\* whether the library can broadcast every product and sum of the rotation
Broadcasts(xe, xo, c, s) ==
    /\ Compatible(Shape4(xe.val), Shape4(c.val))
    /\ Compatible(Shape4(xo.val), Shape4(s.val))
    /\ Compatible(BroadcastShape(Shape4(xe.val), Shape4(c.val)),
                  BroadcastShape(Shape4(xo.val), Shape4(s.val)))

\* jnp.stack([x_even, x_odd], axis=-1)
Stack(xe, xo) ==
    [dtype |-> Promote(xe.dtype, xo.dtype),
     val |-> [b \in DOMAIN xe.val |-> [s \in DOMAIN xe.val[b] |->
               [h \in DOMAIN xe.val[b][s] |-> [k \in DOMAIN xe.val[b][s][h] |->
                  <<xe.val[b][s][h][k], xo.val[b][s][h][k]>>]]]]]

\* the stacked array returned as it is
ReshapeSkipped(st) == st

\* stacked.reshape(*stacked.shape[:-2], -1): row-major over the last two axes
Reshape(st) ==
    [dtype |-> st.dtype,
     val |-> [b \in DOMAIN st.val |-> [s \in DOMAIN st.val[b] |->
               [h \in DOMAIN st.val[b][s] |->
                  [j \in 1..(2 * Len(st.val[b][s][h])) |->
                     st.val[b][s][h][(j + 1) \div 2][((j - 1) % 2) + 1]]]]]]

\* ---------------------------------------------------------------- inputs
Real(v) == [n |-> v, d |-> 1]

XVals == {-1, 0, 2}
Bases == {4, DEFAULT_BASE}
XDTypes == {"bfloat16", "float16", "float32"}
PosDTypes == {"int32", "bfloat16", "float16", "float32"}

\* shapes (B, S, H, D) of x and (Bp, Sp) of position
XShapes ==
    {sh \in (1..MaxRows) \X (1..MaxRows) \X (1..MaxRows) \X (1..MaxD) :
        sh[1] * sh[2] * sh[3] <= MaxRows}
PosShapes == {ps \in (1..MaxRows) \X (1..MaxRows) : ps[1] * ps[2] <= MaxRows}

\* the pairs of them whose broadcast, where there is one, holds at most
\* MaxRows feature vectors
Max(m, n) == IF m >= n THEN m ELSE n
ShapePairs ==
    {sp \in XShapes \X PosShapes :
        Max(sp[1][1], sp[2][1]) * Max(sp[1][2], sp[2][2]) * sp[1][3] <= MaxRows}

PosVals == {Angle(a, b) : a \in 0..MaxQ, b \in 0..MaxTheta}

\* every timescale and every angle of the call is exact
Exact(in) ==
    LET pw == PowerOf(HeadDim(in.x))
    IN  \A k \in DOMAIN pw.val :
          /\ PowExact(in.base, pw.val[k])
          /\ \A b \in DOMAIN in.position.val : \A s \in DOMAIN in.position.val[b] :
                ScaleExact(in.position.val[b][s], Pow(in.base, pw.val[k]))

\* one feature vector of even length with free elements, one position
VectorInputs ==
    {[x |-> [dtype |-> "float32",
             val |-> << << << [d \in 1..D |-> Real(row[d])] >> >> >>],
      position |-> [dtype |-> "float32", val |-> << <<p>> >>],
      base |-> b] :
        D \in {d \in 1..MaxD : d % 2 = 0}, row \in [1..MaxD -> XVals],
        p \in PosVals, b \in Bases}

\* every shape of x against every shape of position.  The feature vectors
\* are all equal or alternate along the sequence; the positions are the
\* arithmetic progression p0 + (b + s - 2) * u.
Scenarios ==
    {[fill |-> "same", p0 |-> Zero, u |-> Zero, base |-> DEFAULT_BASE],
     [fill |-> "alt", p0 |-> Angle(0, 2), u |-> Angle(2, 0), base |-> 4]}

TensorInputs ==
    {[x |-> [dtype |-> "float32",
             val |-> [b \in 1..sh[1] |-> [s \in 1..sh[2] |-> [h \in 1..sh[3] |->
                       [d \in 1..sh[4] |->
                          Real(IF sc.fill = "same" \/ s % 2 = 1 THEN d ELSE d - 3)]]]]],
      position |-> [dtype |-> "float32",
                    val |-> [b \in 1..ps[1] |-> [s \in 1..ps[2] |->
                              AngleAdd(sc.p0, AngleTimes(b + s - 2, sc.u))]]],
      base |-> sc.base] :
        <<sh, ps>> \in ShapePairs, sc \in Scenarios}

\* every pair of element types, on one vector; an int32 position is 0
DtypeInputs ==
    {[x |-> [dtype |-> tx, val |-> << << << <<Real(1), Real(0)>> >> >> >>],
      position |-> [dtype |-> tp, val |-> << <<p>> >>],
      base |-> DEFAULT_BASE] :
        tx \in XDTypes, tp \in PosDTypes,
        p \in {Zero, Angle(1, 0)}}

Inputs ==
    {in \in VectorInputs \cup TensorInputs \cup DtypeInputs :
        /\ Exact(in)
        /\ in.position.dtype = "int32" =>
             \A b \in DOMAIN in.position.val : \A s \in DOMAIN in.position.val[b] :
                in.position.val[b][s] = Zero}

\* ----------------------------------------------------------------- state
Callers == {1, 2}

NoArray == [dtype |-> "none", val |-> <<>>]

VARIABLES
    x, position, base,      \* the caller's arguments, shared by the calls
    pc,                     \* where each call stands
    freq, cos_freq, sin_freq, x_even, x_odd,   \* each call's locals
    result,                 \* the array each call returned
    error                   \* the exception each call raised

vars == <<x, position, base, pc, freq, cos_freq, sin_freq, x_even, x_odd,
          result, error>>
args == <<x, position, base>>

Init ==
    /\ \E in \in Inputs : x = in.x /\ position = in.position /\ base = in.base
    /\ pc = [c \in Callers |-> "assert"]
    /\ freq = [c \in Callers |-> NoArray]
    /\ cos_freq = [c \in Callers |-> NoArray]
    /\ sin_freq = [c \in Callers |-> NoArray]
    /\ x_even = [c \in Callers |-> NoArray]
    /\ x_odd = [c \in Callers |-> NoArray]
    /\ result = [c \in Callers |-> NoArray]
    /\ error = [c \in Callers |-> "none"]

\* lines 25-26, the assertion holds
AssertPass(c) ==
    /\ pc[c] = "assert"
    /\ AssertHolds(HeadDim(x))
    /\ pc' = [pc EXCEPT ![c] = "freq"]
    /\ UNCHANGED <<args, freq, cos_freq, sin_freq, x_even, x_odd, result, error>>

\* lines 25-26, the assertion fails
AssertFail(c) ==
    /\ pc[c] = "assert"
    /\ ~AssertHolds(HeadDim(x))
    /\ pc' = [pc EXCEPT ![c] = "failed"]
    /\ error' = [error EXCEPT ![c] = "AssertionError"]
    /\ UNCHANGED <<args, freq, cos_freq, sin_freq, x_even, x_odd, result>>

\* lines 28-35
Freq(c) ==
    /\ pc[c] = "freq"
    /\ LET f == ExpandHeads(FreqOf(position, Timescale(base, PowerOf(HeadDim(x)))))
       IN  /\ freq' = [freq EXCEPT ![c] = f]
           /\ cos_freq' = [cos_freq EXCEPT ![c] = CosOf(f)]
           /\ sin_freq' = [sin_freq EXCEPT ![c] = SinOf(f)]
    /\ pc' = [pc EXCEPT ![c] = "split"]
    /\ UNCHANGED <<args, x_even, x_odd, result, error>>

\* lines 38-39
Split(c) ==
    /\ pc[c] = "split"
    /\ x_even' = [x_even EXCEPT ![c] = XEven(x)]
    /\ x_odd' = [x_odd EXCEPT ![c] = XOdd(x)]
    /\ pc' = [pc EXCEPT ![c] = "rotate"]
    /\ UNCHANGED <<args, freq, cos_freq, sin_freq, result, error>>

\* lines 42-45 with x_even and x_odd written through to x
RotateInPlace(c) ==
    /\ pc[c] = "rotate"
    /\ Broadcasts(x_even[c], x_odd[c], cos_freq[c], sin_freq[c])
    /\ x_even' = [x_even EXCEPT ![c] =
                    RotateEven(x_even[c], x_odd[c], cos_freq[c], sin_freq[c])]
    /\ x_odd' = [x_odd EXCEPT ![c] =
                    RotateOdd(x_even[c], x_odd[c], cos_freq[c], sin_freq[c])]
    /\ x' = [x EXCEPT !.val = Reshape(Stack(x_even'[c], x_odd'[c])).val]
    /\ pc' = [pc EXCEPT ![c] = "stack"]
    /\ UNCHANGED <<position, base, freq, cos_freq, sin_freq, result, error>>

\* lines 42-45
Rotate(c) ==
    /\ pc[c] = "rotate"
    /\ Broadcasts(x_even[c], x_odd[c], cos_freq[c], sin_freq[c])
    /\ x_even' = [x_even EXCEPT ![c] =
                    RotateEven(x_even[c], x_odd[c], cos_freq[c], sin_freq[c])]
    /\ x_odd' = [x_odd EXCEPT ![c] =
                    RotateOdd(x_even[c], x_odd[c], cos_freq[c], sin_freq[c])]
    /\ pc' = [pc EXCEPT ![c] = "stack"]
    /\ UNCHANGED <<args, freq, cos_freq, sin_freq, result, error>>

\* lines 42-45, the library cannot broadcast position against x
RotateFail(c) ==
    /\ pc[c] = "rotate"
    /\ ~Broadcasts(x_even[c], x_odd[c], cos_freq[c], sin_freq[c])
    /\ pc' = [pc EXCEPT ![c] = "failed"]
    /\ error' = [error EXCEPT ![c] = "BroadcastError"]
    /\ UNCHANGED <<args, freq, cos_freq, sin_freq, x_even, x_odd, result>>

\* lines 48-51
Return(c) ==
    /\ pc[c] = "stack"
    /\ result' = [result EXCEPT ![c] = Reshape(Stack(x_even[c], x_odd[c]))]
    /\ pc' = [pc EXCEPT ![c] = "done"]
    /\ UNCHANGED <<args, freq, cos_freq, sin_freq, x_even, x_odd, error>>

Next ==
    \E c \in Callers :
        \/ AssertPass(c)
        \/ AssertFail(c)
        \/ Freq(c)
        \/ Split(c)
        \/ Rotate(c)
        \/ RotateFail(c)
        \/ Return(c)

Spec == Init /\ [][Next]_vars

\* ================================================================ claims
\* what the formulas below read off a state
B == Len(x.val)
S == Len(x.val[1])
H == Len(x.val[1][1])
D == HeadDim(x)
Bp == Len(position.val)
Sp == Len(position.val[1])

Done(c) == pc[c] = "done"
Rotated(c) == pc[c] \in {"stack", "done"}

\* the element of x, and the position, that index (b, s) of a result reads
XAt(b, s, h, d) == x.val[BIdx(b, B)][BIdx(s, S)][h][d]
XRowAt(b, s, h) == x.val[BIdx(b, B)][BIdx(s, S)][h]
PosAt(b, s) == position.val[BIdx(b, Bp)][BIdx(s, Sp)]

\* the angle position[b, s] * base ** (-2k/D) of plane k (k from 1)
Theta(b, s, k) == Scale(PosAt(b, s), Pow(base, Rat(-2 * (k - 1), D)))

\* position has the shape (B, S) of x, or a size-1 dimension in its place
PositionFits == Bp \in {1, B} /\ Sp \in {1, S}

AllZero ==
    \A b \in 1..Bp : \A s \in 1..Sp : position.val[b][s] = Zero

\* indices of a rank-4 array
Idx3(v) ==
    {<<b, s, h>> \in (1..Len(v)) \X (1..Len(v[1])) \X (1..Len(v[1][1])) : TRUE}

Sq(r) == RMul(r, r)

\* C1 as stated: the result has the shape of x for every position the call
\* accepts.
C1_ShapeOfX ==
    \A c \in Callers : Done(c) => Shape4(result[c].val) = Shape4(x.val)

\* C1, amended: the result has the shape of x whenever each dimension of
\* position equals the corresponding dimension of x or is 1.
C1_ShapeOfXWhenPositionFits ==
    \A c \in Callers :
        Done(c) /\ PositionFits => Shape4(result[c].val) = Shape4(x.val)

\* a call returned where position was broadcast along a size-1 dimension
C1_Witness ==
    \E c \in Callers : Done(c) /\ PositionFits /\ Bp = 1 /\ B > 1

\* C2: with an odd last dimension the call fails at the assertion, before
\* any local or any part of the result is computed, and never returns.
C2_OddRejected ==
    D % 2 = 1 =>
        \A c \in Callers :
            /\ pc[c] \in {"assert", "failed"}
            /\ pc[c] = "failed" => error[c] = "AssertionError"
            /\ result[c] = NoArray
            /\ freq[c] = NoArray /\ cos_freq[c] = NoArray /\ sin_freq[c] = NoArray
            /\ x_even[c] = NoArray /\ x_odd[c] = NoArray

C2_Witness ==
    \E c \in Callers : D % 2 = 1 /\ D > 1 /\ pc[c] = "failed"

\* C3: the split takes the adjacent pair (2k, 2k+1) of every feature
\* vector, the result carries the rotated even value at 2k and the rotated
\* odd value at 2k+1, and that pair of the result is the rotation of that
\* pair of x by the angle of plane k.
C3_InterleavedPairing ==
    \A c \in Callers :
        /\ pc[c] = "rotate" =>
             \A i \in Idx3(x.val) : \A k \in 1..(D \div 2) :
                /\ x_even[c].val[i[1]][i[2]][i[3]][k] = x.val[i[1]][i[2]][i[3]][2 * k - 1]
                /\ x_odd[c].val[i[1]][i[2]][i[3]][k] = x.val[i[1]][i[2]][i[3]][2 * k]
        /\ Done(c) =>
             \A i \in Idx3(result[c].val) :
                /\ Len(result[c].val[i[1]][i[2]][i[3]]) = D
                /\ \A k \in 1..(D \div 2) :
                     LET out == result[c].val[i[1]][i[2]][i[3]]
                         a == XAt(i[1], i[2], i[3], 2 * k - 1)
                         b == XAt(i[1], i[2], i[3], 2 * k)
                         t == Theta(i[1], i[2], k)
                     IN  /\ out[2 * k - 1] = x_even[c].val[i[1]][i[2]][i[3]][k]
                         /\ out[2 * k] = x_odd[c].val[i[1]][i[2]][i[3]][k]
                         /\ out[2 * k - 1] = RSub(RMul(a, cos(t)), RMul(b, sin(t)))
                         /\ out[2 * k] = RAdd(RMul(b, cos(t)), RMul(a, sin(t)))

\* a call returned a vector of two planes whose four elements differ and
\* whose planes are rotated by different angles
C3_Witness ==
    \E c \in Callers :
        /\ Done(c) /\ D = 4
        /\ Cardinality({x.val[1][1][1][d] : d \in 1..4}) = 3
        /\ x.val[1][1][1][1] # x.val[1][1][1][3]
        /\ Theta(1, 1, 1) # Theta(1, 1, 2)
        /\ result[c].val[1][1][1] # x.val[1][1][1]

\* C4: after the rotation, new_even = x_even*cos - x_odd*sin and
\* new_odd = x_odd*cos + x_even*sin, both over the values of x before the
\* rotation; a quarter turn (cos = 0, sin = 1) takes (a, b) to (-b, a).
C4_RotationFormula ==
    \A c \in Callers :
        Rotated(c) =>
            \A i \in Idx3(x_even[c].val) : \A k \in 1..(D \div 2) :
                LET a == XAt(i[1], i[2], i[3], 2 * k - 1)
                    b == XAt(i[1], i[2], i[3], 2 * k)
                    co == cos_freq[c].val[BIdx(i[1], Bp)][BIdx(i[2], Sp)][1][k]
                    si == sin_freq[c].val[BIdx(i[1], Bp)][BIdx(i[2], Sp)][1][k]
                    ne == x_even[c].val[i[1]][i[2]][i[3]][k]
                    no == x_odd[c].val[i[1]][i[2]][i[3]][k]
                IN  /\ ne = RSub(RMul(a, co), RMul(b, si))
                    /\ no = RAdd(RMul(b, co), RMul(a, si))
                    /\ co = Real(0) /\ si = Real(1) =>
                         ne = RSub(Real(0), b) /\ no = a

\* the scenario D = 2, x = [1, 0], angle pi/2: the call returned [0, 1]
C4_Witness ==
    \E c \in Callers :
        /\ Done(c) /\ D = 2
        /\ x.val[1][1][1] = <<Real(1), Real(0)>>
        /\ position.val[1][1] = Angle(1, 0)
        /\ result[c].val[1][1][1] = <<Real(0), Real(1)>>

\* C5: when every entry of position is 0, every element of the result is
\* the element of x it is computed from, for every base; the result is x
\* itself when position fits x.
C5_IdentityAtZero ==
    \A c \in Callers :
        Done(c) /\ AllZero =>
            /\ \A i \in Idx3(result[c].val) :
                  result[c].val[i[1]][i[2]][i[3]] = XRowAt(i[1], i[2], i[3])
            /\ PositionFits => result[c].val = x.val

\* a call returned for an all-zero position, two planes, the default base
\* and a vector that is not zero
C5_Witness ==
    \E c \in Callers :
        /\ Done(c) /\ AllZero /\ D = 4 /\ base = DEFAULT_BASE
        /\ \E d \in 1..D : x.val[1][1][1][d] # Real(0)

\* C6: every pair of the result has the squared norm of the pair of x it
\* is computed from.
C6_NormPreserved ==
    \A c \in Callers :
        Done(c) =>
            \A i \in Idx3(result[c].val) : \A k \in 1..(D \div 2) :
                LET out == result[c].val[i[1]][i[2]][i[3]]
                IN  RAdd(Sq(out[2 * k - 1]), Sq(out[2 * k]))
                      = RAdd(Sq(XAt(i[1], i[2], i[3], 2 * k - 1)),
                             Sq(XAt(i[1], i[2], i[3], 2 * k)))

\* a call returned a pair, neither element 0, rotated by an angle whose
\* cosine and sine are both not 0
C6_Witness ==
    \E c \in Callers :
        /\ Done(c)
        /\ x.val[1][1][1][1] # Real(0) /\ x.val[1][1][1][2] # Real(0)
        /\ cos(Theta(1, 1, 1)) # Real(0) /\ sin(Theta(1, 1, 1)) # Real(0)

\* the dot product of two feature vectors over the feature dimension
RECURSIVE DotUpTo(_, _, _)
DotUpTo(u, v, n) ==
    IF n = 0 THEN Real(0) ELSE RAdd(DotUpTo(u, v, n - 1), RMul(u[n], v[n]))
Dot(u, v) == DotUpTo(u, v, Len(u))

OutRow(c, i) == result[c].val[i[1]][i[2]][i[3]]

\* what the dot product of the rotations of u and v may depend on: u, v
\* and the difference of their positions (with the base and D of the call).
\* Plane k gives (ac + bd) cos(t) + (bc - ad) sin(t) for the pairs (a, b)
\* of u and (c, d) of v and the angle t of the difference.
RECURSIVE RelDotUpTo(_, _, _, _)
RelDotUpTo(u, v, diff, n) ==
    IF n = 0 THEN Real(0)
    ELSE LET t == Scale(diff, Pow(base, Rat(-2 * (n - 1), D)))
             dotp == RAdd(RMul(u[2 * n - 1], v[2 * n - 1]), RMul(u[2 * n], v[2 * n]))
             cross == RSub(RMul(u[2 * n], v[2 * n - 1]), RMul(u[2 * n - 1], v[2 * n]))
         IN  RAdd(RelDotUpTo(u, v, diff, n - 1),
                  RAdd(RMul(dotp, cos(t)), RMul(cross, sin(t))))

\* C7: the dot product of two rotated vectors is a function of the two
\* vectors of x and of the difference of their positions alone, whatever
\* the positions themselves: shifting both leaves it unchanged.
C7_RelativePosition ==
    \A c \in Callers :
        Done(c) =>
            \A i \in Idx3(result[c].val) : \A j \in Idx3(result[c].val) :
                Dot(OutRow(c, i), OutRow(c, j))
                  = RelDotUpTo(XRowAt(i[1], i[2], i[3]), XRowAt(j[1], j[2], j[3]),
                               AngleSub(PosAt(j[1], j[2]), PosAt(i[1], i[2])),
                               D \div 2)

\* a call returned two pairs of rotated vectors, of two different vectors
\* x and y, at the same non-zero difference of positions and at different
\* positions, whose rotations differ
C7_Witness ==
    \E c \in Callers :
        /\ Done(c) /\ PositionFits /\ D = 4
        /\ \E i \in Idx3(result[c].val) : \E i2 \in Idx3(result[c].val) :
           \E j \in Idx3(result[c].val) : \E j2 \in Idx3(result[c].val) :
              /\ XRowAt(i[1], i[2], i[3]) = XRowAt(i2[1], i2[2], i2[3])
              /\ XRowAt(j[1], j[2], j[3]) = XRowAt(j2[1], j2[2], j2[3])
              /\ XRowAt(i[1], i[2], i[3]) # XRowAt(j[1], j[2], j[3])
              /\ PosAt(i[1], i[2]) # PosAt(i2[1], i2[2])
              /\ PosAt(i[1], i[2]) # PosAt(j[1], j[2])
              /\ AngleSub(PosAt(j[1], j[2]), PosAt(i[1], i[2]))
                   = AngleSub(PosAt(j2[1], j2[2]), PosAt(i2[1], i2[2]))
              /\ OutRow(c, i) # OutRow(c, i2)

\* C8 as stated: the element type of the result is the element type of x.
C8_ElementTypeOfX ==
    \A c \in Callers : Done(c) => result[c].dtype = x.dtype

\* C9: no step of a call changes x, position or base; a step of one call
\* changes no local of another; and any two calls that ended, ended alike:
\* with the same array returned or the same exception raised.
Locals(c) ==
    <<pc[c], freq[c], cos_freq[c], sin_freq[c], x_even[c], x_odd[c],
      result[c], error[c]>>

C9_OutcomesAgree ==
    \A c1 \in Callers : \A c2 \in Callers :
        pc[c1] \in {"done", "failed"} /\ pc[c2] \in {"done", "failed"} =>
            /\ pc[c1] = pc[c2]
            /\ result[c1] = result[c2]
            /\ error[c1] = error[c2]

C9_Purity ==
    /\ [] C9_OutcomesAgree
    /\ [][/\ x' = x /\ position' = position /\ base' = base
          /\ \A c1 \in Callers : \A c2 \in Callers :
                (c1 # c2 /\ pc'[c1] # pc[c1]) => Locals(c2)' = Locals(c2)]_vars

\* one call returned a rotated array while the other had rotated but not
\* returned, and the arguments are as they were
C9_Witness ==
    /\ Done(1) /\ pc[2] = "stack"
    /\ result[1].val # x.val
    /\ x_even[2] # XEven(x)

\* C10: the angle table has one entry along the head axis, shared by every
\* head, and two heads that hold the same vector at the same (b, s) get the
\* same rotated vector.
C10_AnglesSharedAcrossHeads ==
    \A c \in Callers :
        /\ pc[c] \notin {"assert", "freq", "failed"} =>
              \A b \in 1..Bp : \A s \in 1..Sp :
                  /\ Len(freq[c].val[b][s]) = 1
                  /\ \A k \in 1..(D \div 2) :
                        freq[c].val[b][s][1][k] = Theta(b, s, k)
        /\ Done(c) =>
              \A i \in Idx3(result[c].val) : \A h2 \in 1..H :
                  XRowAt(i[1], i[2], i[3]) = XRowAt(i[1], i[2], h2) =>
                      OutRow(c, i) = result[c].val[i[1]][i[2]][h2]

\* a call returned for two heads holding the same vector, rotated
C10_Witness ==
    \E c \in Callers :
        /\ Done(c) /\ H >= 2 /\ D = 4
        /\ x.val[1][1][1] = x.val[1][1][2]
        /\ result[c].val[1][1][1] # x.val[1][1][1]
        /\ Theta(1, 1, 2) # Zero

====
